---- MODULE Spec2Model ----
(***************************************************************************)
(* A model of the Rollbar client for Cloudflare Workers (src/src/client.ts) *)
(* and of the data a caller hands to it.                                   *)
(*                                                                         *)
(* Strings whose characters matter (object keys, header names, scrub field *)
(* names) are sequences of one-character strings, so that toLowerCase and  *)
(* String.prototype.includes are computed character by character.  Strings *)
(* that are only ever compared for equality (values, markers, messages)    *)
(* are TLA+ strings.                                                       *)
(***************************************************************************)
EXTENDS Integers, Sequences, FiniteSets, TLC

(***************************************************************************)
(* Bounds of the model.                                                    *)
(***************************************************************************)
\* Number of caller-owned objects (identities 1..NumObjs).
NumObjs == 2
\* Most fields the caller's object graph holds where the scrubber is studied.
MaxFields == 2
\* Most fields the caller's object graph holds where the whole client is studied.
MaxReportFields == 1
\* Call stack frames the engine allows scrubObject before it raises RangeError.
MaxDepth == 5

\* The lines a stack text has at most
MaxLines == 3
\* The report calls begun on one client in one behaviour
MaxInFlight == 2

Objs == 1..NumObjs

(***************************************************************************)
(* Strings as character sequences.                                         *)
(***************************************************************************)
toLowerChar(c) ==
    CASE c = "A" -> "a" [] c = "B" -> "b" [] c = "C" -> "c" [] c = "D" -> "d"
      [] c = "E" -> "e" [] c = "F" -> "f" [] c = "G" -> "g" [] c = "H" -> "h"
      [] c = "I" -> "i" [] c = "J" -> "j" [] c = "K" -> "k" [] c = "L" -> "l"
      [] c = "M" -> "m" [] c = "N" -> "n" [] c = "O" -> "o" [] c = "P" -> "p"
      [] c = "Q" -> "q" [] c = "R" -> "r" [] c = "S" -> "s" [] c = "T" -> "t"
      [] c = "U" -> "u" [] c = "V" -> "v" [] c = "W" -> "w" [] c = "X" -> "x"
      [] c = "Y" -> "y" [] c = "Z" -> "z" [] OTHER -> c

\* String.prototype.toLowerCase
toLowerCase(s) == [i \in 1..Len(s) |-> toLowerChar(s[i])]

\* String.prototype.includes: sub occurs in s as a contiguous run
includes(s, sub) ==
    \E i \in 0..(Len(s) - Len(sub)) : SubSeq(s, i + 1, i + Len(sub)) = sub

\* Array.prototype.includes
arrayIncludes(arr, x) == \E i \in DOMAIN arr : arr[i] = x

\* Array.prototype.map(f => f.toLowerCase())
mapToLowerCase(arr) == [i \in DOMAIN arr |-> toLowerCase(arr[i])]

(***************************************************************************)
(* Constants of client.ts.                                                 *)
(***************************************************************************)
DEFAULT_SCRUB_HEADERS ==
    << <<"a","u","t","h","o","r","i","z","a","t","i","o","n">>,
       <<"c","o","o","k","i","e">>,
       <<"s","e","t","-","c","o","o","k","i","e">>,
       <<"x","-","a","p","i","-","k","e","y">>,
       <<"x","-","a","u","t","h","-","t","o","k","e","n">> >>

DEFAULT_SCRUB_FIELDS ==
    << <<"p","a","s","s","w","o","r","d">>,
       <<"s","e","c","r","e","t">>,
       <<"t","o","k","e","n">>,
       <<"a","c","c","e","s","s","T","o","k","e","n">>,
       <<"a","c","c","e","s","s","_","t","o","k","e","n">>,
       <<"a","p","i","K","e","y">>,
       <<"a","p","i","_","k","e","y">>,
       <<"c","r","e","d","e","n","t","i","a","l">> >>

SCRUBBED == "[SCRUBBED]"
CIRCULAR == "[Circular Reference]"

(***************************************************************************)
(* JavaScript values.  A caller-owned object is a reference into heap; an  *)
(* object the library allocates is carried by value, since nothing else    *)
(* holds a reference to it.                                                *)
(***************************************************************************)
Undefined == [t |-> "undef"]
Null == [t |-> "null"]
Str(s) == [t |-> "str", s |-> s]
Ref(i) == [t |-> "ref", id |-> i]
Obj(f) == [t |-> "obj", f |-> f]
EmptyMap == [k \in {} |-> Undefined]

\* The element of a one-element set.  Only({e(x) : x \in {v}}) is e(v) with v
\* computed once.
Only(S) == CHOOSE x \in S : TRUE

\* typeof v === 'object' && v !== null
IsObject(v) == v.t \in {"ref", "obj"}

\* Keys the caller uses in its objects, in the order the caller inserts them
\* (Object.keys enumerates own string keys in insertion order).
k_name == <<"n","a","m","e">>
k_Password == <<"P","a","s","s","w","o","r","d">>
k_pin == <<"p","i","n">>
k_body == <<"b","o","d","y">>
k_person == <<"p","e","r","s","o","n">>
\* The keys of a Person (types: id, username, email)
k_id == <<"i","d">>
k_username == <<"u","s","e","r","n","a","m","e">>
k_email == <<"e","m","a","i","l">>
KeyOrder == <<k_name, k_Password, k_pin, k_body, k_person, k_id, k_username, k_email>>
Keys == {k_name, k_Password, k_pin}

\* A primitive the caller stores (it is neither marker).
Alice == Str("alice")
HeapValues == {Alice} \cup {Ref(i) : i \in Objs}

\* The keys of the objects handed to the whole client: a plain one, and the
\* two that the library itself writes next to the caller's (body in
\* logMessage, person in withPerson)
ReportKeys == {k_name, k_body, k_person}

\* The own members of an object
Members(obj, hp) == IF obj.t = "ref" THEN hp[obj.id] ELSE obj.f

\* Object.keys(o)
ObjectKeys(f) == SelectSeq(KeyOrder, LAMBDA k : k \in DOMAIN f)

\* Number of fields of the whole object graph
RECURSIVE FieldCount(_, _)
FieldCount(hp, n) ==
    IF n = 0 THEN 0 ELSE Cardinality(DOMAIN hp[n]) + FieldCount(hp, n - 1)

VARIABLES
    heap,       \* the caller's objects: identity -> (key -> value)
    client,     \* the constructed client [config, scrubFields], or NoClient
    derived,    \* the client withPerson returned, or NoClient
    pc,         \* where the caller's one library call stands
    call,       \* the report call made: [method, arg, context], or NoCall
    posts,      \* the requests handed to fetch, in order
    replies,    \* what the transport did with the requests, in order
    console,    \* the lines written to console.log / console.error, in order
    outcome,    \* how the report call's promise settled
    inRequest,  \* the platform Request the caller or the wrapper was given, or Undefined
    reqCtx,     \* what buildRequestContext returned to the caller, or Undefined
    wrapped,    \* the invocation of a wrapped handler
    sstack,     \* scrubObject run step by step: its activations, innermost last
    svisited,   \* scrubObject run step by step: the WeakSet visited
    sout,       \* scrubObject run step by step: what the outermost call returned
    raised,     \* the Error handed to the stack parser: [name, stack]
    parsed,     \* what parseStackFrames and getErrorLocation returned for it
    flights     \* the report calls begun on one client while others wait for fetch

vars == <<heap, client, derived, pc, call, posts, replies, console, outcome,
          inRequest, reqCtx, wrapped, sstack, svisited, sout, raised, parsed,
          flights>>

(***************************************************************************)
(* scrubObject (client.ts 45-77).  The WeakSet visited and the caller's    *)
(* heap are threaded through the recursion: st is the activation           *)
(* [self, result, visited, heap] of one call.                              *)
(***************************************************************************)
\* A faulty visited.has: the WeakSet never reports a member
WeakSetHas_never(visited, v) == FALSE

\* visited.has(v): a WeakSet holds object identities only
WeakSetHas(visited, v) == v.t = "ref" /\ v.id \in visited

\* A faulty assignment: without the copy { ...obj }, result is the caller's
\* own object, and result[key] = v writes into it
AssignResult_inPlace(st, key, v) ==
    [st EXCEPT !.result[key] = v, !.heap[st.self][key] = v]

\* result[key] = v, on the shallow copy made by { ...obj }
AssignResult(st, key, v) == [st EXCEPT !.result[key] = v]

RECURSIVE scrubObject(_, _, _, _)
RECURSIVE scrubKeys(_, _, _)

scrubKeys(keys, scrubFields, st) ==
    IF keys = << >> THEN st
    ELSE
      LET key == Head(keys)
          lowerFields == mapToLowerCase(scrubFields)
          v == st.result[key]
          st1 ==
            IF arrayIncludes(lowerFields, toLowerCase(key))
            THEN AssignResult(st, key, Str(SCRUBBED))
            ELSE IF IsObject(v)
            THEN IF WeakSetHas(st.visited, v)
                 THEN AssignResult(st, key, Str(CIRCULAR))
                 ELSE Only({AssignResult(
                              [st EXCEPT !.visited = r.visited, !.heap = r.heap],
                              key, r.val) :
                            r \in {scrubObject(v, scrubFields, st.visited, st.heap)}})
            ELSE st
      IN Only({scrubKeys(Tail(keys), scrubFields, s1) : s1 \in {st1}})

\* The result is [thrown, val, visited, heap]: thrown is the TypeError of
\* WeakSet.prototype.add on a value that is not an object.
scrubObject(obj, scrubFields, visited, hp) ==
    IF WeakSetHas(visited, obj)
    THEN [thrown |-> FALSE, val |-> Str(CIRCULAR), visited |-> visited, heap |-> hp]
    ELSE IF ~IsObject(obj)
    THEN [thrown |-> TRUE, val |-> Undefined, visited |-> visited, heap |-> hp]
    ELSE
      Only({[thrown |-> FALSE, val |-> Obj(st.result),
             visited |-> st.visited, heap |-> st.heap] :
            st \in {scrubKeys(ObjectKeys(st0.result), scrubFields, st0) :
                    st0 \in {[self |-> IF obj.t = "ref" THEN obj.id ELSE 0,
                              result |-> Members(obj, hp),
                              visited |-> IF obj.t = "ref" THEN visited \cup {obj.id}
                                          ELSE visited,
                              heap |-> hp]}}})

(***************************************************************************)
(* JSON.stringify.  A caller-owned object is serialised by walking it; an  *)
(* object met again below itself is the TypeError "Converting circular     *)
(* structure to JSON".  Members whose value is undefined are left out.     *)
(***************************************************************************)
JsonThrow == [t |-> "throw"]

RECURSIVE jsonValue(_, _, _)
jsonMembers(f, hp, path) ==
    Only({IF \E k \in DOMAIN m : m[k].t = "throw"
          THEN JsonThrow
          ELSE Obj([k \in {x \in DOMAIN m : m[x].t # "undef"} |-> m[k]]) :
          m \in {[k \in DOMAIN f |-> jsonValue(f[k], hp, path)]}})

jsonValue(v, hp, path) ==
    CASE v.t = "ref" ->
            IF v.id \in path THEN JsonThrow
            ELSE jsonMembers(hp[v.id], hp, path \cup {v.id})
      [] v.t = "obj" -> jsonMembers(v.f, hp, path)
      [] OTHER -> v

\* JSON.stringify(payload): the document, or JsonThrow.  The members that can
\* hold caller data are serialised by jsonValue; an absent member stays
\* Undefined.
stringify(payload, hp) ==
    LET d == payload.data
        j(v) == jsonValue(v, hp, {})
        req == IF d.request.t = "undef" THEN Undefined
               ELSE [t |-> "req",
                     url |-> j(d.request.url), method |-> j(d.request.method),
                     headers |-> j(d.request.headers),
                     params |-> j(d.request.params),
                     user_ip |-> j(d.request.user_ip),
                     body |-> j(d.request.body)]
        parts == {j(d.custom), j(d.person), j(d.fingerprint), j(d.title),
                  j(d.uuid), j(d.body.trace), j(d.body.message)}
                 \cup (IF req.t = "undef" THEN {}
                       ELSE {req.url, req.method, req.headers, req.params,
                             req.user_ip, req.body})
    IN  IF \E x \in parts : x.t = "throw"
        THEN JsonThrow
        ELSE [t |-> "json",
              access_token |-> payload.access_token,
              data |-> [d EXCEPT !.custom = j(d.custom),
                                 !.person = j(d.person),
                                 !.fingerprint = j(d.fingerprint),
                                 !.title = j(d.title),
                                 !.uuid = j(d.uuid),
                                 !.request = req,
                                 !.body = [trace |-> j(d.body.trace),
                                           message |-> j(d.body.message)]]]

(***************************************************************************)
(* The stack parser (example/index.ts 174-350).  Strings are sequences of  *)
(* one-character strings; the three regular expressions are matched as the *)
(* engine matches them, the quantifiers in their order of preference.      *)
(***************************************************************************)
Digits == <<"0","1","2","3","4","5","6","7","8","9">>
Letters ==
    {"a","b","c","d","e","f","g","h","i","j","k","l","m","n","o","p","q","r","s",
     "t","u","v","w","x","y","z","A","B","C","D","E","F","G","H","I","J","K","L",
     "M","N","O","P","Q","R","S","T","U","V","W","X","Y","Z"}

\* \d
DigitChars == {Digits[i] : i \in DOMAIN Digits}
\* \s, and the characters String.prototype.trim removes
SpaceChars == {" ", "\t", "\r", "\n"}
\* [\w.<>[\]$], the characters of a method name; \w is [A-Za-z0-9_]
MethodChars == Letters \cup DigitChars \cup {"_", ".", "<", ">", "[", "]", "$"}

Num(n) == [t |-> "num", n |-> n]

\* The length of the longest run of characters of the class that starts at p
Run(s, p, class) ==
    IF p > Len(s) THEN 0
    ELSE CHOOSE k \in 0..(Len(s) - p + 1) :
            /\ \A i \in p..(p + k - 1) : s[i] \in class
            /\ p + k > Len(s) \/ s[p + k] \notin class

\* The length of the longest run of characters of the class that ends at p
RunBack(s, p, class) ==
    IF p < 1 THEN 0
    ELSE CHOOSE k \in 0..p :
            /\ \A i \in (p - k + 1)..p : s[i] \in class
            /\ p - k < 1 \/ s[p - k] \notin class

\* String.prototype.trim
trim(s) ==
    Only({SubSeq(s, a + 1, Len(s) - b) :
          a \in {Run(s, 1, SpaceChars)}, b \in {RunBack(s, Len(s), SpaceChars)}})

\* String.prototype.startsWith
startsWith(s, prefix) ==
    Len(s) >= Len(prefix) /\ SubSeq(s, 1, Len(prefix)) = prefix

\* s has sub at position p
HasAt(s, p, sub) ==
    p >= 1 /\ p + Len(sub) - 1 <= Len(s) /\ SubSeq(s, p, p + Len(sub) - 1) = sub

\* String.prototype.split('\n')
RECURSIVE split(_)
split(s) ==
    IF \A i \in DOMAIN s : s[i] # "\n" THEN <<s>>
    ELSE Only({<<SubSeq(s, 1, i - 1)>> \o split(SubSeq(s, i + 1, Len(s))) :
               i \in {CHOOSE i \in DOMAIN s :
                        s[i] = "\n" /\ \A j \in 1..(i - 1) : s[j] # "\n"}})

\* parseInt(digits, 10)
RECURSIVE parseInt(_)
parseInt(s) ==
    IF s = << >> THEN 0
    ELSE 10 * parseInt(SubSeq(s, 1, Len(s) - 1))
         + ((CHOOSE i \in DOMAIN Digits : Digits[i] = s[Len(s)]) - 1)

NoMatch == [ok |-> FALSE]

\* :(?<lineno>\d+):(?<colno>\d+)$, or with \)? before the $ when paren is
\* true.  The digits contain no colon, so the place at which this ending
\* starts is fixed by the end of the string: at is the first colon.
locationEnd(s, paren) ==
    Only({
      Only({
        IF c >= 1 /\ e - c >= 1 /\ s[e - c] = ":"
        THEN Only({IF l >= 1 /\ e - c - l - 1 >= 1 /\ s[e - c - l - 1] = ":"
                   THEN [ok |-> TRUE, at |-> e - c - l - 1,
                         lineno |-> SubSeq(s, e - c - l, e - c - 1),
                         colno |-> SubSeq(s, e - c + 1, e)]
                   ELSE NoMatch :
                   l \in {RunBack(s, e - c - 1, DigitChars)}})
        ELSE NoMatch :
        c \in {RunBack(s, e, DigitChars)}}) :
      e \in {IF paren /\ Len(s) >= 1 /\ s[Len(s)] = ")"
             THEN Len(s) - 1 ELSE Len(s)}})

\* A place at which (?<filename>.+?) may start, with the method matched
\* before it
Start(p, method) == [from |-> p, method |-> method]

\* The concatenation of f(w) for w from hi down to 1: the order in which a
\* greedy \s+ of at most hi characters gives characters back
RECURSIVE Greedy(_, _)
Greedy(f, hi) == IF hi < 1 THEN << >> ELSE f[hi] \o Greedy(f, hi - 1)

\* (?:(?<method>[\w.<>[\]$]+)\s+\()? at p: with the group, then without it.
\* A shorter method or a shorter \s+ is followed by a character that cannot
\* continue the group, so only the longest runs can match.
methodStarts(s, p) ==
    Only({(IF m >= 1 /\ w >= 1 /\ HasAt(s, p + m + w, <<"(">>)
           THEN <<Start(p + m + w + 1, Str(SubSeq(s, p, p + m - 1)))>>
           ELSE << >>)
          \o <<Start(p, Undefined)>> :
          m \in {Run(s, p, MethodChars)},
          w \in {Run(s, p + Run(s, p, MethodChars), SpaceChars)}})

\* (?:async\s+)? at p and what follows it: with the group, then without it
asyncStarts(s, p) ==
    (IF HasAt(s, p, <<"a","s","y","n","c">>)
     THEN Greedy([w \in 1..Run(s, p + 5, SpaceChars) |-> methodStarts(s, p + 5 + w)],
                 Run(s, p + 5, SpaceChars))
     ELSE << >>)
    \o methodStarts(s, p)

\* ^\s*at\s+ and what follows it in V8_FRAME_REGEX
v8Starts(s) ==
    Only({IF HasAt(s, a + 1, <<"a","t">>)
          THEN Greedy([w \in 1..Run(s, a + 3, SpaceChars) |-> asyncStarts(s, a + 3 + w)],
                      Run(s, a + 3, SpaceChars))
          ELSE << >> :
          a \in {Run(s, 1, SpaceChars)}})

\* ^\s*at\s+ in V8_ANONYMOUS_REGEX
v8AnonymousStarts(s) ==
    Only({IF HasAt(s, a + 1, <<"a","t">>)
          THEN Greedy([w \in 1..Run(s, a + 3, SpaceChars) |->
                         <<Start(a + 3 + w, Undefined)>>],
                      Run(s, a + 3, SpaceChars))
          ELSE << >> :
          a \in {Run(s, 1, SpaceChars)}})

\* ^(?<method>[\w.<>[\]$]+)?@ in FIREFOX_REGEX
firefoxStarts(s) ==
    Only({(IF m >= 1 /\ HasAt(s, m + 1, <<"@">>)
           THEN <<Start(m + 2, Str(SubSeq(s, 1, m)))>> ELSE << >>)
          \o (IF HasAt(s, 1, <<"@">>) THEN <<Start(2, Undefined)>> ELSE << >>) :
          m \in {Run(s, 1, MethodChars)}})

\* trimmed.match(regex): the first start, in the order of preference, that
\* leaves a filename of one character or more before the ending.  The groups
\* are as String.prototype.match delivers them, lineno and colno as text.
match(s, starts, paren) ==
    Only({IF end.ok /\ \E i \in DOMAIN starts : starts[i].from < end.at
          THEN Only({[ok |-> TRUE,
                      groups |-> [method |-> st.method,
                                  filename |-> SubSeq(s, st.from, end.at - 1),
                                  lineno |-> end.lineno,
                                  colno |-> end.colno]] :
                     st \in {starts[CHOOSE i \in DOMAIN starts :
                                      (starts[i].from < end.at
                                       /\ (\A j \in 1..(i - 1) :
                                              starts[j].from >= end.at))]}})
          ELSE NoMatch :
          end \in {locationEnd(s, paren)}})

V8_FRAME_REGEX(s) == match(s, v8Starts(s), TRUE)
V8_ANONYMOUS_REGEX(s) == match(s, v8AnonymousStarts(s), FALSE)
FIREFOX_REGEX(s) == match(s, firefoxStarts(s), FALSE)

\* A StackFrame; lineno and colno are absent from a frame that was not parsed
StackFrame(filename, lineno, colno, method) ==
    [t |-> "frame", filename |-> filename, lineno |-> lineno, colno |-> colno,
     method |-> method]

f_unparsed == <<"(","u","n","p","a","r","s","e","d",")">>
f_no_stack_trace == <<"(","n","o"," ","s","t","a","c","k"," ","t","r","a","c","e",")">>
m_anonymous == <<"(","a","n","o","n","y","m","o","u","s",")">>
n_Error == <<"E","r","r","o","r">>
n_TypeError == <<"T","y","p","e","E","r","r","o","r">>

\* groups.method || '(anonymous)'
methodOr(method) == IF method.t = "undef" THEN m_anonymous ELSE method.s

\* parseStackLine(line): a frame, or null (example/index.ts 212-268).  A
\* filename, lineno or colno that matched is never the empty string, so the
\* three guards on the groups hold whenever the expression matched.
parseStackLine(line) ==
    Only({
      IF trimmed = << >> \/ startsWith(trimmed, <<"E","r","r","o","r",":">>) \/ trimmed = n_Error
      THEN Null
      ELSE Only({
        IF v8.ok
        THEN StackFrame(v8.groups.filename, Num(parseInt(v8.groups.lineno)),
                   Num(parseInt(v8.groups.colno)), methodOr(v8.groups.method))
        ELSE Only({
          IF an.ok
          THEN StackFrame(an.groups.filename, Num(parseInt(an.groups.lineno)),
                     Num(parseInt(an.groups.colno)), m_anonymous)
          ELSE Only({
            IF ff.ok
            THEN StackFrame(ff.groups.filename, Num(parseInt(ff.groups.lineno)),
                       Num(parseInt(ff.groups.colno)), methodOr(ff.groups.method))
            ELSE StackFrame(f_unparsed, Undefined, Undefined, trimmed) :
            ff \in {FIREFOX_REGEX(trimmed)}}) :
          an \in {V8_ANONYMOUS_REGEX(trimmed)}}) :
        v8 \in {V8_FRAME_REGEX(trimmed)}}) :
      trimmed \in {trim(line)}})

\* for (const line of lines) { const frame = parseStackLine(line);
\*                             if (frame) frames.push(frame) }
RECURSIVE pushFrames(_)
pushFrames(lines) ==
    IF lines = << >> THEN << >>
    ELSE Only({(IF frame.t = "frame" THEN <<frame>> ELSE << >>)
               \o pushFrames(Tail(lines)) :
               frame \in {parseStackLine(Head(lines))}})

\* A faulty parseStackFrames: the frames are returned in line order
reverse_not(a) == a

\* Array.prototype.reverse
reverse(a) == [i \in 1..Len(a) |-> a[Len(a) + 1 - i]]

\* A string that is not empty: what !error.stack tests
HasText(v) == v.t = "str" /\ v.s # << >>

\* A faulty placeholder: the method is always 'Error'
nameOrError_always(error) == n_Error

\* error.name || 'Error'
nameOrError(error) == IF error.name = << >> THEN n_Error ELSE error.name

\* parseStackFrames(error) (example/index.ts 279-311)
parseStackFrames(error) ==
    IF ~HasText(error.stack)
    THEN <<StackFrame(f_no_stack_trace, Undefined, Undefined, nameOrError(error))>>
    ELSE Only({IF frames = << >>
               THEN <<StackFrame(f_no_stack_trace, Undefined, Undefined,
                            nameOrError(error))>>
               ELSE reverse(frames) :
               frames \in {pushFrames(split(error.stack.s))}})

\* frames[frames.length - 1]
lastOf(frames) == frames[Len(frames)]

\* getErrorLocation(error): a frame, or null (example/index.ts 334-350)
getErrorLocation(error) ==
    Only({IF frame.filename = f_no_stack_trace \/ frame.filename = f_unparsed
          THEN Null
          ELSE frame :
          frame \in {lastOf(parseStackFrames(error))}})

\* The stack text the engine gives a new error: the summary line and the
\* line of the place that created it
v8Stack(name, message, site) ==
    Str((IF message = << >> THEN name ELSE name \o <<":"," ">> \o message)
        \o <<"\n">> \o site)

\* Where wrap creates the Error for a value that is not one
at_wrap == <<" "," "," "," ","a","t"," ","c","l","i","e","n","t",".","j","s",":","2","3","4",":","4","5">>

NoError == [t |-> "none"]
NotParsed == [t |-> "none"]

(***************************************************************************)
(* The client: constructor, buildPayload, send.                            *)
(***************************************************************************)
ROLLBAR_API_URL == "https://api.rollbar.com/api/1/item/"
NOTIFIER_NAME == "@triptech/cloudflare-worker-rollbar"
NOTIFIER_VERSION == "2.0.1"

Arr(a) == [t |-> "arr", a |-> a]
NoClient == [t |-> "none"]
NoCall == [t |-> "none"]

\* JavaScript truthiness of the values the model holds
Truthy(v) == v.t \notin {"undef", "null"} /\ ~(v.t = "str" /\ v.s = "")

\* { ...v }: the own members of an object; nothing for undefined
Spread(v) == IF v.t = "obj" THEN v.f ELSE EmptyMap

\* A faulty constructor: scrubFields given in the configuration replace the
\* built-in list instead of extending it
Rollbar_replacingDefaults(config) ==
    IF ~Truthy(config.accessToken)
    THEN [thrown |-> TRUE, client |-> NoClient]
    ELSE [thrown |-> FALSE,
          client |->
            [t |-> "client",
             config |-> [config EXCEPT !.environment =
                            IF @.t \in {"undef", "null"} THEN Str("production") ELSE @],
             scrubFields |->
                IF config.scrubFields.t \in {"undef", "null"}
                THEN DEFAULT_SCRUB_FIELDS ELSE config.scrubFields.a]]

\* A faulty constructor: the access token is not checked
Rollbar_unchecked(config) ==
    [thrown |-> FALSE,
     client |->
       [t |-> "client",
        config |-> [config EXCEPT !.environment =
                       IF @.t \in {"undef", "null"} THEN Str("production") ELSE @],
        scrubFields |->
           DEFAULT_SCRUB_FIELDS \o
           (IF config.scrubFields.t \in {"undef", "null"}
            THEN << >> ELSE config.scrubFields.a)]]

\* new Rollbar(config): [thrown, client]
Rollbar(config) ==
    IF ~Truthy(config.accessToken)
    THEN [thrown |-> TRUE, client |-> NoClient]
    ELSE [thrown |-> FALSE,
          client |->
            [t |-> "client",
             config |-> [config EXCEPT !.environment =
                            IF @.t \in {"undef", "null"} THEN Str("production") ELSE @],
             scrubFields |->
                DEFAULT_SCRUB_FIELDS \o
                (IF config.scrubFields.t \in {"undef", "null"}
                 THEN << >> ELSE config.scrubFields.a)]]

\* The level each public method reports at (client.ts 148-185)
LevelOf(method) ==
    CASE method = "debug" -> "debug"
      [] method = "info" -> "info"
      [] method = "warning" -> "warning"
      [] method = "log" -> "error"
      [] method = "error" -> "error"
      [] method = "critical" -> "critical"

\* buildPayload, first part (client.ts 333-367): the stamped payload and the
\* scrubbed default payload of the configuration.  b is [thrown, data, heap].
payloadBase(cl, level, now, hp) ==
    LET cfg == cl.config
        data0 == [environment |-> cfg.environment,
                  body |-> [trace |-> Undefined, message |-> Undefined],
                  level |-> level,
                  timestamp |-> now,
                  platform |-> "cloudflare-workers",
                  language |-> "javascript",
                  notifier |-> [name |-> NOTIFIER_NAME, version |-> NOTIFIER_VERSION],
                  code_version |-> IF Truthy(cfg.codeVersion) THEN cfg.codeVersion
                                   ELSE Undefined,
                  server |-> IF Truthy(cfg.host) THEN cfg.host ELSE Undefined,
                  custom |-> Undefined, person |-> Undefined,
                  request |-> Undefined, fingerprint |-> Undefined,
                  title |-> Undefined, uuid |-> Undefined]
    IN  IF Truthy(cfg.payload)
        THEN Only({[thrown |-> r.thrown,
                    data |-> [data0 EXCEPT !.custom =
                                Obj(Spread(r.val) @@ Spread(data0.custom))],
                    heap |-> r.heap] :
                   r \in {scrubObject(cfg.payload, cl.scrubFields, {}, hp)}})
        ELSE [thrown |-> FALSE, data |-> data0, heap |-> hp]

\* A faulty request block: the body is included whatever includeRequestBody
\* says
payloadRequest_alwaysBody(cl, context, b) ==
    IF b.thrown \/ ~Truthy(context.request) THEN b
    ELSE
      LET rq == context.request
          block == [t |-> "req", url |-> rq.url, method |-> rq.method,
                    headers |-> rq.headers, params |-> rq.params,
                    user_ip |-> rq.userIp, body |-> Undefined]
      IN  IF Truthy(rq.body)
          THEN Only({[thrown |-> r.thrown,
                      data |-> [b.data EXCEPT !.request = [block EXCEPT !.body = r.val]],
                      heap |-> r.heap] :
                     r \in {scrubObject(rq.body, cl.scrubFields, {}, b.heap)}})
          ELSE [b EXCEPT !.data.request = block]

\* buildPayload, the request block (client.ts 375-391)
payloadRequest(cl, context, b) ==
    IF b.thrown \/ ~Truthy(context.request) THEN b
    ELSE
      LET rq == context.request
          block == [t |-> "req", url |-> rq.url, method |-> rq.method,
                    headers |-> rq.headers, params |-> rq.params,
                    user_ip |-> rq.userIp, body |-> Undefined]
      IN  IF cl.config.includeRequestBody /\ Truthy(rq.body)
          THEN Only({[thrown |-> r.thrown,
                      data |-> [b.data EXCEPT !.request = [block EXCEPT !.body = r.val]],
                      heap |-> r.heap] :
                     r \in {scrubObject(rq.body, cl.scrubFields, {}, b.heap)}})
          ELSE [b EXCEPT !.data.request = block]

\* A faulty custom block: the keys already in payload.data.custom win
payloadCustom_defaultsWin(cl, context, b) ==
    IF b.thrown \/ ~Truthy(context.custom) THEN b
    ELSE
      Only({[thrown |-> r.thrown,
             data |-> [b.data EXCEPT !.custom = Obj(Spread(@) @@ Spread(r.val))],
             heap |-> r.heap] :
            r \in {scrubObject(context.custom, cl.scrubFields, {}, b.heap)}})

\* buildPayload, the custom block (client.ts 393-398)
payloadCustom(cl, context, b) ==
    IF b.thrown \/ ~Truthy(context.custom) THEN b
    ELSE
      Only({[thrown |-> r.thrown,
             data |-> [b.data EXCEPT !.custom = Obj(Spread(r.val) @@ Spread(@))],
             heap |-> r.heap] :
            r \in {scrubObject(context.custom, cl.scrubFields, {}, b.heap)}})

\* buildPayload, person (client.ts 371-373)
payloadPerson(context, b) ==
    IF b.thrown \/ ~Truthy(context.person) THEN b
    ELSE [b EXCEPT !.data.person = context.person]

\* buildPayload, fingerprint, title and uuid (client.ts 400-410)
payloadRest(context, b) ==
    IF b.thrown THEN b
    ELSE [b EXCEPT
            !.data.fingerprint =
                IF Truthy(context.fingerprint) THEN context.fingerprint ELSE @,
            !.data.title = IF Truthy(context.title) THEN context.title ELSE @,
            !.data.uuid = IF Truthy(context.uuid) THEN context.uuid ELSE @]

\* buildPayload, the context (client.ts 370-411)
payloadContext(cl, context, b0) ==
    IF ~Truthy(context) THEN b0
    ELSE Only({payloadRest(context, b3) :
               b3 \in {payloadCustom(cl, context, b2) :
                       b2 \in {payloadRequest(cl, context, b1) :
                               b1 \in {payloadPerson(context, b0)}}}})

\* buildPayload (client.ts 332-414): [thrown, payload, heap]
buildPayload(cl, level, context, now, hp) ==
    Only({[thrown |-> b.thrown,
           payload |-> [access_token |-> cl.config.accessToken, data |-> b.data],
           heap |-> b.heap] :
          b \in {payloadContext(cl, context, b0) :
                 b0 \in {payloadBase(cl, level, now, hp)}}})

Pending == [kind |-> "pending"]
Returned(v) == [kind |-> "returned", value |-> v]
Rejected(e) == [kind |-> "rejected", value |-> e]
TypeError == [t |-> "error", id |-> "library", name |-> n_TypeError,
              message |-> n_TypeError]
LogLine(ch, tag) == [ch |-> ch, tag |-> tag]

\* send, up to its await of fetch (client.ts 419-431).  e is the state the
\* call has produced so far, [pc, heap, console, posts, outcome].
sendBegin(cl, payload, e) ==
    Only({
      IF cl.config.verbose /\ doc.t = "throw"
      THEN \* JSON.stringify(payload, null, 2) throws outside the try
           [e EXCEPT !.pc = "done", !.outcome = Rejected(TypeError)]
      ELSE
        LET c1 == IF cl.config.verbose
                  THEN Append(e.console, LogLine("log", "[Rollbar] Sending payload:"))
                  ELSE e.console
        IN  IF doc.t = "throw"
            THEN \* JSON.stringify(payload) throws inside the try
                 [e EXCEPT !.pc = "done",
                           !.console = Append(c1, LogLine("error", "[Rollbar] Failed to send:")),
                           !.outcome = Returned(Null)]
            ELSE [e EXCEPT !.pc = "awaitFetch",
                           !.console = c1,
                           !.posts = Append(e.posts,
                               [url |-> ROLLBAR_API_URL, method |-> "POST",
                                contentType |-> "application/json", body |-> doc]),
                           !.outcome = Pending] :
      doc \in {stringify(payload, e.heap)}})

\* A faulty send: a request that failed is made again
sendSettle_retrying(cl, resp, e) ==
    IF resp.kind = "fail"
    THEN [e EXCEPT !.pc = "awaitFetch", !.posts = Append(@, @[Len(@)])]
    ELSE [e EXCEPT !.pc = "done", !.outcome = Returned(resp.result)]

\* send, from the settling of fetch (client.ts 433-447)
sendSettle(cl, resp, e) ==
    IF resp.kind = "fail"
    THEN [e EXCEPT !.pc = "done",
                   !.console = Append(e.console, LogLine("error", "[Rollbar] Failed to send:")),
                   !.outcome = Returned(Null)]
    ELSE
      LET c1 == IF cl.config.verbose
                THEN Append(e.console, LogLine("log", "[Rollbar] Response:"))
                ELSE e.console
          c2 == IF resp.result.err # 0
                THEN Append(c1, LogLine("error", "[Rollbar] Error response:"))
                ELSE c1
      IN  [e EXCEPT !.pc = "done", !.console = c2, !.outcome = Returned(resp.result)]

\* reportError, up to the await inside send (client.ts 285-304)
reportError(cl, level, error, context, now, e) ==
    Only({
      IF b.thrown
      THEN [e EXCEPT !.pc = "done", !.heap = b.heap, !.outcome = Rejected(TypeError)]
      ELSE Only({sendBegin(cl, payload, e1) :
                 payload \in {[b.payload EXCEPT !.data.body =
                                 [trace |-> [t |-> "trace",
                                             frames |-> frames,
                                             exception |-> [class |-> error.name,
                                                            message |-> error.message]],
                                  message |-> Undefined]]},
                 e1 \in {[e EXCEPT !.heap = b.heap]}}) :
      frames \in {parseStackFrames(error)},
      b \in {buildPayload(cl, level, context, now, e.heap)}})

\* logMessage, up to the await inside send (client.ts 309-327)
logMessage(cl, level, message, context, now, e) ==
    Only({
      IF b.thrown
      THEN [e EXCEPT !.pc = "done", !.heap = b.heap, !.outcome = Rejected(TypeError)]
      ELSE Only({
             IF r.thrown
             THEN [e EXCEPT !.pc = "done", !.heap = r.heap,
                            !.outcome = Rejected(TypeError)]
             ELSE Only({sendBegin(cl, payload, e1) :
                        payload \in {[b.payload EXCEPT !.data.body =
                                        [trace |-> Undefined,
                                         message |-> Obj(Spread(r.val)
                                                         @@ (k_body :> message))]]},
                        e1 \in {[e EXCEPT !.heap = r.heap]}}) :
             r \in {IF Truthy(context) /\ Truthy(context.custom)
                    THEN scrubObject(context.custom, cl.scrubFields, {}, b.heap)
                    ELSE [thrown |-> FALSE, val |-> Obj(EmptyMap), heap |-> b.heap]}}) :
      b \in {buildPayload(cl, level, context, now, e.heap)}})

\* A faulty dispatch: every method takes the message path
report_allMessages(cl, method, arg, context, now, e) ==
    logMessage(cl, LevelOf(method), arg, context, now, e)

\* debug, info, warning, log, error, critical (client.ts 148-185)
report(cl, method, arg, context, now, e) ==
    IF method \in {"error", "critical"}
    THEN reportError(cl, LevelOf(method), arg, context, now, e)
    ELSE logMessage(cl, LevelOf(method), arg, context, now, e)

(***************************************************************************)
(* withPerson (client.ts 271-280).                                         *)
(***************************************************************************)
\* { ...v }: the own members of a caller's or a library's object
SpreadOf(v, hp) == IF IsObject(v) THEN Members(v, hp) ELSE EmptyMap

\* A faulty withPerson: the person is written into this.config and this is
\* returned
withPerson_inPlace(cl, person, hp) ==
    Only({[thrown |-> FALSE, parent |-> c, derived |-> c, heap |-> hp] :
          c \in {[cl EXCEPT !.config.payload =
                     Obj((k_person :> person) @@ SpreadOf(cl.config.payload, hp))]}})

\* withPerson(person): [thrown, parent, derived, heap], where parent is this
\* after the call and derived is the client returned
withPerson(cl, person, hp) ==
    Only({[thrown |-> r.thrown, parent |-> cl, derived |-> r.client, heap |-> hp] :
          r \in {Rollbar([cl.config EXCEPT !.payload =
                     Obj((k_person :> person) @@ SpreadOf(cl.config.payload, hp))])}})

(***************************************************************************)
(* scrubHeaders and buildRequestContext (client.ts 82-98, 190-205).        *)
(***************************************************************************)
\* scrubFields.some((f) => key.toLowerCase().includes(f.toLowerCase()))
headerMatches(key, scrubFields) ==
    \E i \in DOMAIN scrubFields :
        includes(toLowerCase(key), toLowerCase(scrubFields[i]))

\* A faulty scrubHeaders: the fields passed in replace the built-in markers
scrubHeaders_onlyAdditional(headers, additionalScrubFields) ==
    [key \in DOMAIN headers |->
        IF headerMatches(key, additionalScrubFields)
        THEN Str(SCRUBBED) ELSE headers[key]]

\* A faulty scrubHeaders: the else branch is missing, so a header that
\* matches nothing is left out of the result
scrubHeaders_dropsOthers(headers, additionalScrubFields) ==
    [key \in {k \in DOMAIN headers :
                headerMatches(k, DEFAULT_SCRUB_HEADERS \o additionalScrubFields)} |->
        Str(SCRUBBED)]

scrubHeaders(headers, additionalScrubFields) ==
    LET scrubFields == DEFAULT_SCRUB_HEADERS \o additionalScrubFields
    IN  [key \in DOMAIN headers |->
            IF headerMatches(key, scrubFields) THEN Str(SCRUBBED) ELSE headers[key]]

\* request.headers.forEach((value, key) => { headers[key] = value }): the
\* platform's header collection reports every name in lower case.
HeadersForEach(h) ==
    [key \in {toLowerCase(n) : n \in DOMAIN h} |->
        h[CHOOSE n \in DOMAIN h : toLowerCase(n) = key]]

\* request is what the caller built the platform's Request from: url, method,
\* the headers, the parsed query and the cf-connecting-ip header (or Null).
buildRequestContext(cl, request) ==
    [t |-> "reqctx",
     url |-> request.url,
     method |-> request.method,
     headers |-> Obj(scrubHeaders(HeadersForEach(request.headers), cl.scrubFields)),
     params |-> Obj(request.params),
     userIp |-> IF request.cfIp.t = "null" THEN Undefined ELSE request.cfIp,
     body |-> Undefined]

(***************************************************************************)
(* wrap (client.ts 222-266).                                               *)
(***************************************************************************)
\* String(v)
String(v) ==
    CASE v.t = "str" -> v.s
      [] v.t = "null" -> <<"n","u","l","l">>
      [] v.t = "undef" -> <<"u","n","d","e","f","i","n","e","d">>
      [] v.t = "error" -> v.message
      [] OTHER -> <<"[","o","b","j","e","c","t"," ","O","b","j","e","c","t","]">>

\* A faulty conversion: new Error() without the message
toError_noMessage(err) ==
    IF err.t = "error" THEN err
    ELSE [t |-> "error", id |-> "wrap", name |-> n_Error, message |-> << >>,
          stack |-> v8Stack(n_Error, << >>, at_wrap)]

\* err instanceof Error ? err : new Error(String(err))
toError(err) ==
    IF err.t = "error" THEN err
    ELSE [t |-> "error", id |-> "wrap", name |-> n_Error, message |-> String(err),
          stack |-> v8Stack(n_Error, String(err), at_wrap)]

\* A faulty wait: the report is awaited although waitUntil has taken it
wrapAwaits_always(hasWaitUntil) == TRUE

\* if (ctx?.waitUntil) ctx.waitUntil(reportPromise) else await reportPromise
wrapAwaits(hasWaitUntil) == ~hasWaitUntil

InternalServerError ==
    [t |-> "response", status |-> 500, contentType |-> "application/json",
     body |-> "{\"error\":\"Internal Server Error\"}"]

\* A faulty pass-through: the wrapper answers for the handler
wrapReturn_replaced(response) == Returned(InternalServerError)

\* return await handler(request, env, ctx), when the handler returns
wrapReturn(response) == Returned(response)

\* What the wrapped handler does once the report call has been made and,
\* without waitUntil, awaited (client.ts 249-263).
wrapFinish(options, error) ==
    IF options.rethrow THEN Rejected(error)
    ELSE IF options.errorResponse
    THEN Returned([t |-> "response", by |-> "errorResponse", error |-> error])
    ELSE Returned(InternalServerError)

\* { ...options.context, request: this.buildRequestContext(request) }
wrapContext(cl, options, request) ==
    LET c == options.context
    IN  [t |-> "ctx",
         person |-> IF Truthy(c) THEN c.person ELSE Undefined,
         custom |-> IF Truthy(c) THEN c.custom ELSE Undefined,
         fingerprint |-> IF Truthy(c) THEN c.fingerprint ELSE Undefined,
         title |-> IF Truthy(c) THEN c.title ELSE Undefined,
         uuid |-> IF Truthy(c) THEN c.uuid ELSE Undefined,
         request |-> buildRequestContext(cl, request)]

(***************************************************************************)
(* What the caller passes in.                                              *)
(***************************************************************************)
f_PIN == <<"P","I","N">>

cfgDefault ==
    [accessToken |-> Str("test-token"), environment |-> Undefined,
     codeVersion |-> Undefined, host |-> Undefined, scrubFields |-> Undefined,
     includeRequestBody |-> FALSE, payload |-> Undefined, verbose |-> FALSE]

cfgFull ==
    [accessToken |-> Str("test-token"), environment |-> Str("staging"),
     codeVersion |-> Str("1.0.0"), host |-> Str("edge-1"),
     scrubFields |-> Arr(<<f_PIN>>),
     includeRequestBody |-> TRUE, payload |-> Ref(NumObjs), verbose |-> FALSE]

ConfigInputs ==
    {cfgDefault, [cfgDefault EXCEPT !.verbose = TRUE],
     cfgFull, [cfgFull EXCEPT !.verbose = TRUE],
     [cfgDefault EXCEPT !.accessToken = Str("")],
     [cfgDefault EXCEPT !.accessToken = Undefined]}

h_Authorization == <<"A","u","t","h","o","r","i","z","a","t","i","o","n">>
h_proxy_authorization ==
    <<"p","r","o","x","y","-","a","u","t","h","o","r","i","z","a","t","i","o","n">>
h_Cookie == <<"C","o","o","k","i","e">>
h_set_cookie == <<"s","e","t","-","c","o","o","k","i","e">>
h_X_API_Key == <<"X","-","A","P","I","-","K","e","y">>
h_x_auth_token == <<"x","-","a","u","t","h","-","t","o","k","e","n">>
h_content_type == <<"c","o","n","t","e","n","t","-","t","y","p","e">>
h_x_custom_header == <<"x","-","c","u","s","t","o","m","-","h","e","a","d","e","r">>
h_x_csrf_token == <<"x","-","c","s","r","f","-","t","o","k","e","n">>
h_x_pin == <<"x","-","p","i","n">>

HeaderNames ==
    {h_Authorization, h_proxy_authorization, h_Cookie, h_set_cookie, h_X_API_Key,
     h_x_auth_token, h_content_type, h_x_custom_header, h_x_csrf_token, h_x_pin}

HeaderValue == Str("header-value")
Bearer == Str("Bearer token123")

\* The header collections of the requests: one header, or two
HeaderInputs ==
    {(n :> HeaderValue) : n \in HeaderNames}
    \cup {(h_Authorization :> Bearer) @@ (h_x_custom_header :> Str("value"))}

Request(h) ==
    [url |-> Str("https://example.com/api/test?foo=bar"), method |-> Str("POST"),
     headers |-> h,
     params |-> (<<"f","o","o">> :> Str("bar")),
     cfIp |-> Null]

RequestInputs == {Request(h) : h \in HeaderInputs}

\* The request a wrapped handler is invoked with
WrapRequestInputs ==
    {Request((h_Authorization :> Bearer) @@ (h_x_custom_header :> Str("value")))}

Ctx(person, request, custom) ==
    [t |-> "ctx", person |-> person, request |-> request, custom |-> custom,
     fingerprint |-> Undefined, title |-> Undefined, uuid |-> Undefined]

\* A request context the caller writes itself instead of calling
\* buildRequestContext
DirectRequest(headers, body) ==
    [t |-> "reqctx", url |-> Str("https://example.com/login"), method |-> Str("POST"),
     headers |-> headers, params |-> Undefined, userIp |-> Str("203.0.113.7"),
     body |-> body]

ContextInputs ==
    {Undefined,
     Ctx(Undefined, Undefined, Ref(1)),
     Ctx(Ref(1), Undefined, Undefined),
     Ctx(Undefined, DirectRequest(Obj(h_Authorization :> Bearer), Str("raw body")),
         Undefined),
     Ctx(Undefined, DirectRequest(Ref(1), Ref(1)), Undefined),
     [Ctx(Ref(1), Undefined, Ref(1)) EXCEPT
        !.fingerprint = Str("fp"), !.title = Str("title"), !.uuid = Str("uuid")]}

\* The persons bound with withPerson
PersonInputs ==
    {Obj((k_id :> Str("user-456")) @@ (k_username :> Str("johndoe"))),
     Obj((k_id :> Str("user-123")) @@ (k_username :> Str("janedoe"))
         @@ (k_email :> Str("jane@example.com")))}

MessageMethods == {"debug", "info", "warning", "log"}
ErrorMethods == {"error", "critical"}

at_handler == <<" "," "," "," ","a","t"," ","h","a","n","d","l","e","r"," ","(","w","o","r","k","e","r",".","j","s",":","5","0",":","1","0",")">>

AnError == [t |-> "error", id |-> "caller", name |-> n_TypeError,
            message |-> <<"T","y","p","e"," ","m","i","s","m","a","t","c","h">>,
            stack |-> v8Stack(n_TypeError, <<"T","y","p","e"," ","m","i","s","m","a","t","c","h">>, at_handler)]
AMessage == Str("Test message")

ArgOf(method) == IF method \in ErrorMethods THEN AnError ELSE AMessage

\* A caller that has built a request context reports with it
ReportInputs ==
    IF reqCtx.t # "undef"
    THEN {<<m, Ctx(Undefined, reqCtx, Undefined)>> : m \in {"info", "error"}}
    ELSE {<<m, c>> : m \in {"info", "error"}, c \in ContextInputs}
         \cup {<<m, Ctx(Undefined, Undefined, Ref(1))>> :
                 m \in {"debug", "warning", "log", "critical"}}

\* The reports through which the scrubber is studied
DataReportInputs ==
    {<<"info", Ctx(Undefined, Undefined, Ref(1))>>,
     <<"error", Ctx(Undefined, Undefined, Ref(1))>>,
     <<"error", Ctx(Undefined,
                    DirectRequest(Obj(h_content_type :> HeaderValue), Ref(1)),
                    Undefined)>>}

DataConfigInputs == {cfgDefault, cfgFull}

\* The reports made through a client and the client derived from it
PersonReportInputs ==
    {<<m, c>> : m \in {"info", "error"},
                c \in {Undefined, Ctx(Undefined, Undefined, Ref(1))}}

\* The errors handed to the stack parser: their names, and the lines of
\* their stack texts
NameInputs == {n_Error, n_TypeError, << >>}

l_Error_msg == <<"E","r","r","o","r",":"," ","m","s","g">>
l_TypeError_msg == <<"T","y","p","e","E","r","r","o","r",":"," ","m","s","g">>
l_Error == <<"E","r","r","o","r">>
l_foo == <<" "," "," "," ","a","t"," ","f","o","o"," ","(","f","i","l","e",":","/","/","/","a",".","j","s",":","1",":","2",")">>
l_async == <<" "," "," "," ","a","t"," ","a","s","y","n","c"," ","b",".","j","s",":","3","0",":","4">>
l_bar == <<"b","a","r","@","c",".","j","s",":","5",":","6">>
l_native == <<" "," "," "," ","a","t"," ","<","a","n","o","n","y","m","o","u","s",">">>

LineInputs == {l_Error_msg, l_TypeError_msg, l_Error, l_foo, l_async, l_bar,
               l_native, << >>}

\* The report calls made while others wait for fetch
FlightInputs ==
    {<<"info", Undefined>>,
     <<"error", Ctx(Undefined, Undefined, Ref(1))>>}

\* The person bound while calls are in flight
FlightPersonInputs == {Obj((k_id :> Str("user-456")) @@ (k_username :> Str("johndoe")))}

ClockInputs == {1767225600}

\* What fetch and response.json() do: fail, or deliver an acknowledgement
TransportInputs ==
    {[kind |-> "fail"],
     [kind |-> "ack", result |-> [t |-> "ack", err |-> 0, uuid |-> "test-uuid"]],
     [kind |-> "ack", result |-> [t |-> "ack", err |-> 1, message |-> "Invalid token"]]}

\* What the transport does with the requests of calls in flight together
FlightReplyInputs == {r \in TransportInputs : r.kind = "fail" \/ r.result.err = 0}

HandlerInputs ==
    {[kind |-> "returns", response |-> [t |-> "response", by |-> "handler"]],
     [kind |-> "throws", value |-> AnError],
     [kind |-> "throws", value |-> Str(<<"S","t","r","i","n","g"," ","e","r","r","o","r">>)],
     [kind |-> "throws", value |-> Null]}

WrapperOptionInputs ==
    {[rethrow |-> r, errorResponse |-> er, context |-> Undefined] :
        r \in BOOLEAN, er \in BOOLEAN}
    \cup {[rethrow |-> r, errorResponse |-> FALSE,
           context |-> Ctx(Ref(1), Undefined, Ref(1))] : r \in BOOLEAN}

(***************************************************************************)
(* The caller's steps.                                                     *)
(***************************************************************************)
NotWrapped == [pc |-> "idle"]

\* The client a report call was made through
ClientOf(c) == IF c.through = "derived" THEN derived ELSE client

Effects == [pc |-> pc, heap |-> heap, console |-> console, posts |-> posts,
            outcome |-> outcome]

Apply(e) ==
    /\ pc' = e.pc
    /\ heap' = e.heap
    /\ console' = e.console
    /\ posts' = e.posts
    /\ outcome' = e.outcome

\* new Rollbar(config)
Construct(configs) ==
    \E config \in configs :
        /\ pc = "new"
        /\ LET r == Rollbar(config)
           IN  /\ client' = r.client
               /\ pc' = IF r.thrown THEN "ctorThrew" ELSE "ready"
        /\ UNCHANGED <<heap, derived, call, posts, replies, console, outcome,
                       inRequest, reqCtx, wrapped, sstack, svisited, sout, raised, parsed,
          flights>>

\* The caller stores a value under one of keys in one of its objects objs.
CallerSet(objs, keys, limit) ==
    \E o \in objs, k \in keys, v \in HeapValues :
        /\ pc = "ready"
        /\ reqCtx.t = "undef"
        /\ k \notin DOMAIN heap[o]
        /\ FieldCount(heap, NumObjs) < limit
        /\ heap' = [heap EXCEPT ![o] = (k :> v) @@ heap[o]]
        /\ UNCHANGED <<client, derived, replies, pc, call, posts, console, outcome, inRequest, reqCtx,
                       wrapped, sstack, svisited, sout,
                       raised, parsed, flights>>

\* rollbar.buildRequestContext(request), by a caller that has built no objects
BuildRequestContext ==
    \E req \in RequestInputs :
        /\ pc = "ready"
        /\ reqCtx.t = "undef"
        /\ FieldCount(heap, NumObjs) = 0
        /\ inRequest' = req
        /\ reqCtx' = buildRequestContext(client, req)
        /\ UNCHANGED <<heap, client, derived, replies, pc, call, posts, console, outcome, wrapped,
                       sstack, svisited, sout,
                       raised, parsed, flights>>

\* debug / info / warning / log / error / critical called on the client
\* (through = "client") or on the one withPerson returned ("derived"), up to
\* the point where the call waits for fetch
ReportVia(through, inputs) ==
    \E in \in inputs, now \in ClockInputs :
        /\ pc = "ready"
        /\ ClientOf([through |-> through]) # NoClient
        /\ call' = [t |-> "call", through |-> through, method |-> in[1],
                    arg |-> ArgOf(in[1]), context |-> in[2]]
        /\ \E e \in {report(ClientOf([through |-> through]), in[1], ArgOf(in[1]),
                             in[2], now, Effects)} :
              Apply(e)
        /\ UNCHANGED <<client, derived, replies, inRequest, reqCtx, wrapped, sstack, svisited, sout,
                       raised, parsed, flights>>

\* rollbar.debug / info / warning / log / error / critical
Report(inputs) == ReportVia("client", inputs)

\* rollbar.withPerson(person)
WithPersonOf(persons) ==
    \E person \in persons :
        /\ pc = "ready"
        /\ \E r \in {withPerson(client, person, heap)} :
              /\ ~r.thrown
              /\ client' = r.parent
              /\ derived' = r.derived
              /\ heap' = r.heap
        /\ UNCHANGED <<pc, call, posts, replies, console, outcome, inRequest, reqCtx,
                       wrapped, sstack, svisited, sout,
                       raised, parsed, flights>>

WithPerson == WithPersonOf(PersonInputs)

\* fetch settles and send runs to its end
Settle ==
    \E resp \in TransportInputs :
        /\ pc = "awaitFetch"
        /\ \E e \in {sendSettle(ClientOf(call), resp, Effects)} : Apply(e)
        /\ replies' = Append(replies, resp)
        /\ UNCHANGED <<client, derived, call, inRequest, reqCtx, wrapped, sstack, svisited, sout,
                       raised, parsed, flights>>

\* The platform invokes rollbar.wrap(handler, options)(request, env, ctx)
WrapInvoke ==
    \E h \in HandlerInputs, options \in WrapperOptionInputs,
       hasWaitUntil \in BOOLEAN, req \in WrapRequestInputs, now \in ClockInputs :
        /\ pc = "ready"
        /\ wrapped.pc = "idle"
        /\ reqCtx.t = "undef"
        /\ IF h.kind = "returns"
           THEN /\ wrapped' = [pc |-> "done", handler |-> h, options |-> options,
                               hasWaitUntil |-> hasWaitUntil,
                               waitUntilCalls |-> 0, result |-> wrapReturn(h.response)]
                /\ pc' = "done"
                /\ UNCHANGED <<heap, call, posts, console, outcome>>
           ELSE \E error \in {toError(h.value)},
                   reportContext \in {wrapContext(client, options, req)} :
                    /\ call' = [t |-> "call", through |-> "client",
                                method |-> "error", arg |-> error,
                                context |-> reportContext]
                    /\ \E e \in {report(client, "error", error, reportContext,
                                         now, Effects)} : Apply(e)
                    /\ wrapped' =
                         IF wrapAwaits(hasWaitUntil)
                         THEN [pc |-> "awaitReport", handler |-> h, options |-> options,
                               hasWaitUntil |-> hasWaitUntil,
                               waitUntilCalls |-> IF hasWaitUntil THEN 1 ELSE 0,
                               result |-> Pending]
                         ELSE [pc |-> "done", handler |-> h, options |-> options,
                               hasWaitUntil |-> hasWaitUntil,
                               waitUntilCalls |-> IF hasWaitUntil THEN 1 ELSE 0,
                               result |-> wrapFinish(options, error)]
        /\ inRequest' = req
        /\ UNCHANGED <<client, derived, replies, reqCtx, sstack, svisited, sout,
                       raised, parsed, flights>>

\* await reportPromise completes in the wrapped handler
WrapResume ==
    /\ wrapped.pc = "awaitReport"
    /\ pc = "done"
    /\ wrapped' = [wrapped EXCEPT
                     !.pc = "done",
                     !.result = IF outcome.kind = "rejected" THEN outcome
                                ELSE wrapFinish(wrapped.options, call.arg)]
    /\ UNCHANGED <<heap, client, derived, replies, pc, call, posts, console, outcome, inRequest,
                   reqCtx, sstack, svisited, sout,
                       raised, parsed, flights>>

(***************************************************************************)
(* scrubObject (client.ts 45-77) run step by step on the caller's object 1 *)
(* with the client's scrub fields.  An activation is [self, result, keys]: *)
(* the object it copies, the copy, and the keys its loop has yet to visit. *)
(* The engine's call stack holds MaxDepth activations.                     *)
(***************************************************************************)
\* scrubObject(obj, scrubFields): entry of the outermost call with a new WeakSet
ScrubCall ==
    /\ pc = "ready"
    /\ pc' = "scrub"
    /\ svisited' = {1}
    /\ sstack' = <<[self |-> 1, result |-> heap[1], keys |-> ObjectKeys(heap[1])]>>
    /\ UNCHANGED <<heap, client, derived, replies, call, posts, console, outcome, inRequest, reqCtx,
                   wrapped, sout, raised, parsed, flights>>

\* return result
ScrubReturn ==
    LET n == Len(sstack)
        fr == sstack[n]
    IN  /\ fr.keys = << >>
        /\ IF n = 1
           THEN /\ sout' = Obj(fr.result)
                /\ sstack' = << >>
                /\ pc' = "scrubbed"
           ELSE LET parent == sstack[n - 1]
                IN  /\ sstack' = [SubSeq(sstack, 1, n - 1) EXCEPT ![n - 1] =
                           [AssignResult(parent, Head(parent.keys), Obj(fr.result))
                              EXCEPT !.keys = Tail(parent.keys)]]
                    /\ UNCHANGED <<sout, pc>>
        /\ UNCHANGED svisited

\* one turn of the loop over Object.keys(result)
ScrubKey ==
    LET n == Len(sstack)
        fr == sstack[n]
        key == Head(fr.keys)
        v == fr.result[key]
        lowerFields == mapToLowerCase(client.scrubFields)
        next(a) == [sstack EXCEPT ![n] = [a EXCEPT !.keys = Tail(fr.keys)]]
    IN  /\ fr.keys # << >>
        /\ IF arrayIncludes(lowerFields, toLowerCase(key))
           THEN /\ sstack' = next(AssignResult(fr, key, Str(SCRUBBED)))
                /\ UNCHANGED <<svisited, pc>>
           ELSE IF IsObject(v)
           THEN IF WeakSetHas(svisited, v)
                THEN /\ sstack' = next(AssignResult(fr, key, Str(CIRCULAR)))
                     /\ UNCHANGED <<svisited, pc>>
                ELSE IF n < MaxDepth
                THEN /\ svisited' = svisited \cup {v.id}
                     /\ sstack' = Append(sstack,
                            [self |-> v.id, result |-> heap[v.id],
                             keys |-> ObjectKeys(heap[v.id])])
                     /\ UNCHANGED pc
                ELSE /\ pc' = "overflow"
                     /\ UNCHANGED <<sstack, svisited>>
           ELSE /\ sstack' = next(fr)
                /\ UNCHANGED <<svisited, pc>>
        /\ UNCHANGED sout

ScrubStep ==
    /\ pc = "scrub"
    /\ ScrubReturn \/ ScrubKey
    /\ UNCHANGED <<heap, client, derived, replies, call, posts, console, outcome, inRequest, reqCtx,
                   wrapped, raised, parsed, flights>>

(***************************************************************************)
(* Report calls in flight together.  An async call runs to its await of    *)
(* fetch without interruption and resumes when its own fetch settles; its  *)
(* position and its promise are its own, the heap, the console and the     *)
(* transport are shared.  A flight also records what it began with.        *)
(***************************************************************************)
NoReply == [kind |-> "none"]

\* The state a call begins with
Begun(hp, con, reqs) ==
    [pc |-> "ready", heap |-> hp, console |-> con, posts |-> reqs,
     outcome |-> [kind |-> "none"]]

\* The state in which flight f resumes
Resumed(f) ==
    [pc |-> f.pc, heap |-> heap, console |-> console, posts |-> posts,
     outcome |-> f.outcome]

\* rollbar.info / warning / error, called while earlier calls may be waiting
ReportInFlight ==
    \E in \in FlightInputs, now \in ClockInputs :
        /\ pc = "ready"
        /\ client # NoClient
        /\ Len(flights) < MaxInFlight
        /\ \E e \in {report(client, in[1], ArgOf(in[1]), in[2], now,
                             Begun(heap, console, posts))} :
              /\ heap' = e.heap
              /\ console' = e.console
              /\ posts' = e.posts
              /\ flights' = Append(flights,
                    [method |-> in[1], arg |-> ArgOf(in[1]), context |-> in[2],
                     now |-> now, client |-> client, heap |-> heap,
                     others |-> Cardinality({i \in DOMAIN flights :
                                               flights[i].pc = "awaitFetch"}),
                     pc |-> e.pc, outcome |-> e.outcome,
                     post |-> IF e.pc = "awaitFetch" THEN Len(e.posts) ELSE 0,
                     reply |-> NoReply])
        /\ UNCHANGED <<client, derived, pc, call, replies, outcome, inRequest,
                       reqCtx, wrapped, sstack, svisited, sout, raised, parsed>>

\* The fetch of one of the waiting calls settles and its send runs to its end
SettleInFlight ==
    \E i \in DOMAIN flights, resp \in FlightReplyInputs :
        /\ flights[i].pc = "awaitFetch"
        /\ \E e \in {sendSettle(client, resp, Resumed(flights[i]))} :
              /\ heap' = e.heap
              /\ console' = e.console
              /\ posts' = e.posts
              /\ flights' = [flights EXCEPT ![i] =
                               [@ EXCEPT !.pc = e.pc, !.outcome = e.outcome,
                                         !.reply = resp]]
        /\ UNCHANGED <<client, derived, pc, call, replies, outcome, inRequest,
                       reqCtx, wrapped, sstack, svisited, sout, raised, parsed>>

\* const error = new Error(...), or new TypeError(...), with error.stack
\* absent, empty or one line of text
NewError ==
    \E name \in NameInputs,
       stack \in {Undefined, Str(<< >>)} \cup {Str(l) : l \in LineInputs} :
        /\ raised = NoError
        /\ raised' = [t |-> "error", name |-> name, stack |-> stack]
        /\ UNCHANGED <<heap, client, derived, pc, call, posts, replies, console,
                       outcome, inRequest, reqCtx, wrapped, sstack, svisited, sout,
                       parsed, flights>>

\* The stack text has one more line
StackLine ==
    \E l \in LineInputs :
        /\ raised.t = "error"
        /\ raised.stack.t = "str"
        /\ parsed = NotParsed
        /\ Len(split(raised.stack.s)) < MaxLines
        /\ raised' = [raised EXCEPT !.stack = Str(@.s \o <<"\n">> \o l)]
        /\ UNCHANGED <<heap, client, derived, pc, call, posts, replies, console,
                       outcome, inRequest, reqCtx, wrapped, sstack, svisited, sout,
                       parsed, flights>>

\* parseStackFrames(error)
ParseStackFrames ==
    /\ raised.t = "error"
    /\ parsed = NotParsed
    /\ parsed' = [t |-> "parsed", frames |-> parseStackFrames(raised),
                  location |-> Undefined]
    /\ UNCHANGED <<heap, client, derived, pc, call, posts, replies, console,
                   outcome, inRequest, reqCtx, wrapped, sstack, svisited, sout,
                   raised, flights>>

\* getErrorLocation(error)
GetErrorLocation ==
    /\ parsed.t = "parsed"
    /\ parsed.location.t = "undef"
    /\ parsed' = [parsed EXCEPT !.location = getErrorLocation(raised)]
    /\ UNCHANGED <<heap, client, derived, pc, call, posts, replies, console,
                   outcome, inRequest, reqCtx, wrapped, sstack, svisited, sout,
                   raised, flights>>

Init ==
    /\ heap = [o \in Objs |-> EmptyMap]
    /\ client = NoClient
    /\ derived = NoClient
    /\ pc = "new"
    /\ call = NoCall
    /\ posts = << >>
    /\ replies = << >>
    /\ console = << >>
    /\ outcome = [kind |-> "none"]
    /\ inRequest = Undefined
    /\ reqCtx = Undefined
    /\ wrapped = NotWrapped
    /\ sstack = << >>
    /\ svisited = {}
    /\ sout = Undefined
    /\ raised = NoError
    /\ parsed = NotParsed
    /\ flights = << >>

\* The whole client.  The caller fills the one object it hands over; the
\* other objects stay empty.
Next ==
    \/ Construct(ConfigInputs)
    \/ CallerSet({1}, ReportKeys, MaxReportFields)
    \/ BuildRequestContext
    \/ Report(ReportInputs)
    \/ Settle
    \/ WrapInvoke
    \/ WrapResume

Spec == Init /\ [][Next]_vars

\* Reports of the caller's object graphs
NextData ==
    \/ Construct(DataConfigInputs)
    \/ CallerSet(Objs, Keys, MaxFields)
    \/ Report(DataReportInputs)

SpecData == Init /\ [][NextData]_vars

\* A client and the clients withPerson derives from it
NextPerson ==
    \/ Construct(DataConfigInputs)
    \/ CallerSet(Objs, {k_name, k_person}, MaxReportFields)
    \/ WithPerson
    \/ ReportVia("client", PersonReportInputs)
    \/ ReportVia("derived", PersonReportInputs)

SpecPerson == Init /\ [][NextPerson]_vars

\* scrubObject alone, step by step.  The engine runs a call that has begun.
NextScrub ==
    \/ Construct(DataConfigInputs)
    \/ CallerSet(Objs, Keys, MaxFields)
    \/ ScrubCall
    \/ ScrubStep

SpecScrub == Init /\ [][NextScrub]_vars /\ WF_vars(ScrubStep)

\* The stack parser alone, on the errors a caller hands it
NextStack ==
    \/ NewError
    \/ StackLine
    \/ ParseStackFrames
    \/ GetErrorLocation

SpecStack == Init /\ [][NextStack]_vars

\* One client used by several report calls at a time, while the caller goes
\* on writing its data and deriving clients
NextFlights ==
    \/ Construct(DataConfigInputs)
    \/ CallerSet({1}, {k_name}, MaxReportFields)
    \/ WithPersonOf(FlightPersonInputs)
    \/ ReportInFlight
    \/ SettleInFlight

SpecFlights == Init /\ [][NextFlights]_vars

(***************************************************************************)
(* Properties of the client.                                               *)
(***************************************************************************)
NamesOf(arr) == {arr[i] : i \in DOMAIN arr}

\* The scrubFields the configuration gave to the constructor
SuppliedFields ==
    IF client.t = "client" /\ client.config.scrubFields.t = "arr"
    THEN NamesOf(client.config.scrubFields.a) ELSE {}

\* key equals, case-insensitively, a built-in field name or a supplied one
IsSensitiveKey(key) ==
    \E f \in NamesOf(DEFAULT_SCRUB_FIELDS) \cup SuppliedFields :
        toLowerCase(f) = toLowerCase(key)

\* sent, the members sent for the caller's object id, are as C1 describes
RECURSIVE ScrubbedAsSpecified(_, _)
ScrubbedAsSpecified(sent, id) ==
    \A k \in DOMAIN heap[id] :
        /\ k \in DOMAIN sent
        /\ (sent[k] = Str(SCRUBBED)) <=> IsSensitiveKey(k)
        /\ (~IsSensitiveKey(k) /\ heap[id][k].t = "str") => sent[k] = heap[id][k]
        /\ (~IsSensitiveKey(k) /\ heap[id][k].t = "ref" /\ sent[k].t = "obj")
              => ScrubbedAsSpecified(sent[k].f, heap[id][k].id)

\* A report whose custom data is the caller's object 1 has been posted
CustomReportPosted ==
    /\ call.t = "call"
    /\ call.context.t = "ctx"
    /\ call.context.custom = Ref(1)
    /\ posts # << >>

\* C1: for every key at any depth of the custom data of a report, the value
\* sent is '[SCRUBBED]' exactly when the key equals, case-insensitively, a
\* built-in field name or a scrubFields name given at construction (supplied
\* names add to the built-in ones), and a non-matching key with a primitive
\* value is sent unchanged.  Both places the custom data is sent in are
\* covered: data.custom, and body.message of a message report.
CustomKeysScrubbed ==
    CustomReportPosted =>
        /\ ScrubbedAsSpecified(posts[1].body.data.custom.f, 1)
        /\ call.method \in MessageMethods =>
              ScrubbedAsSpecified(posts[1].body.data.body.message.f, 1)

\* C1 happens: a client built with scrubFields ['PIN'] has posted custom data
\* whose nested object holds the built-in name in the spelling Password, and
\* the value is masked two levels down.
CustomKeysScrubbed_witness ==
    /\ CustomReportPosted
    /\ SuppliedFields # {}
    /\ k_name \in DOMAIN heap[1] /\ heap[1][k_name] = Ref(2)
    /\ k_Password \in DOMAIN heap[2] /\ heap[2][k_Password] = Alice
    /\ posts[1].body.data.custom.f[k_name] = Obj(k_Password :> Str(SCRUBBED))

\* C2: a call of scrubObject that has begun returns; in particular the
\* engine's call stack is never exhausted, although scrubObject has no depth
\* cutoff of its own.
ScrubTerminates == (pc = "scrub") ~> (pc = "scrubbed")

\* C2 happens: scrubObject has returned on two objects that reference each
\* other, the edge back to the first one replaced by the marker.
ScrubTerminates_witness ==
    /\ pc = "scrubbed"
    /\ k_name \in DOMAIN heap[1] /\ heap[1][k_name] = Ref(2)
    /\ k_name \in DOMAIN heap[2] /\ heap[2][k_name] = Ref(1)
    /\ sout.f[k_name].f[k_name] = Str(CIRCULAR)

\* out is the copy of the caller's object id in which exactly the edges to
\* id or to one of its ancestors are the circular marker, the sensitive keys
\* are masked and everything else is preserved
RECURSIVE PreservedBelow(_, _, _)
PreservedBelow(out, id, ancestors) ==
    /\ out.t = "obj"
    /\ DOMAIN out.f = DOMAIN heap[id]
    /\ \A k \in DOMAIN heap[id] :
          IF IsSensitiveKey(k) THEN out.f[k] = Str(SCRUBBED)
          ELSE IF heap[id][k].t = "ref"
          THEN IF heap[id][k].id \in ancestors \cup {id}
               THEN out.f[k] = Str(CIRCULAR)
               ELSE PreservedBelow(out.f[k], heap[id][k].id, ancestors \cup {id})
          ELSE out.f[k] = heap[id][k]

\* C3: in the output of scrubObject, '[Circular Reference]' replaces exactly
\* the edges that point back to an ancestor container; a container that two
\* sibling keys reference appears under both with its content.
MarkerOnlyOnBackEdges == pc = "scrubbed" => PreservedBelow(sout, 1, {})

\* C4: no call of debug, info, warning, log, error or critical on a
\* constructed client throws or rejects.
ReportNeverRejects == call.t = "call" => outcome.kind # "rejected"

\* C5: every report call on a constructed client hands a POST to the
\* transport.
ReportReachesTransport == call.t = "call" => posts # << >>

\* name contains, case-insensitively, one of the five built-in header markers
HasHeaderMarker(name) ==
    \E m \in NamesOf(DEFAULT_SCRUB_HEADERS) : includes(toLowerCase(name), m)

\* C6: in every payload posted, a request header whose name contains a
\* built-in header marker has the value '[SCRUBBED]', also when the caller
\* wrote the request context itself.
SentHeadersMasked ==
    \A i \in DOMAIN posts :
        (posts[i].body.data.request.t = "req"
         /\ posts[i].body.data.request.headers.t = "obj") =>
            \A n \in DOMAIN posts[i].body.data.request.headers.f :
                HasHeaderMarker(n) =>
                    posts[i].body.data.request.headers.f[n] = Str(SCRUBBED)

\* The request contexts buildRequestContext has made of inRequest: the one
\* returned to the caller, and the one the wrapper reported with
BuiltContexts ==
    (IF reqCtx.t = "reqctx" THEN {reqCtx} ELSE {})
    \cup (IF wrapped.pc # "idle" /\ call.t = "call" THEN {call.context.request}
          ELSE {})

\* The header of the request named name has value v in the context ctx
HeaderIs(ctx, name, v) ==
    /\ toLowerCase(name) \in DOMAIN ctx.headers.f
    /\ ctx.headers.f[toLowerCase(name)] = v

\* C7: in the header map buildRequestContext returns, under every
\* configuration, a header whose name contains one of the five built-in
\* markers has the value '[SCRUBBED]'.
BuiltHeadersMasked ==
    \A ctx \in BuiltContexts : \A n \in DOMAIN inRequest.headers :
        HasHeaderMarker(n) => HeaderIs(ctx, n, Str(SCRUBBED))

\* C7 happens: a client configured with scrubFields of its own has built the
\* context of a request carrying X-API-Key, and the header is masked.
BuiltHeadersMasked_witness ==
    /\ reqCtx.t = "reqctx"
    /\ SuppliedFields # {}
    /\ h_X_API_Key \in DOMAIN inRequest.headers
    /\ HeaderIs(reqCtx, h_X_API_Key, Str(SCRUBBED))

\* name contains, case-insensitively, one of the names in fields
HasField(name, fields) ==
    \E f \in fields : includes(toLowerCase(name), toLowerCase(f))

\* C8 as stated: a header whose name contains none of the five built-in
\* header markers and none of the scrubFields supplied at construction keeps
\* its value in the header map buildRequestContext returns.
UnlistedHeaderKept_asStated ==
    \A ctx \in BuiltContexts : \A n \in DOMAIN inRequest.headers :
        (~HasHeaderMarker(n) /\ ~HasField(n, SuppliedFields)) =>
            HeaderIs(ctx, n, inRequest.headers[n])

\* C8, amended: a header whose name contains none of the five built-in
\* header markers, none of the eight built-in field names and none of the
\* scrubFields supplied at construction keeps its value in the header map
\* buildRequestContext returns.
UnlistedHeaderKept ==
    \A ctx \in BuiltContexts : \A n \in DOMAIN inRequest.headers :
        (/\ ~HasHeaderMarker(n)
         /\ ~HasField(n, NamesOf(DEFAULT_SCRUB_FIELDS))
         /\ ~HasField(n, SuppliedFields)) =>
            HeaderIs(ctx, n, inRequest.headers[n])

\* C8 happens: the context of a request with Authorization and
\* x-custom-header keeps the value of x-custom-header and masks the other.
UnlistedHeaderKept_witness ==
    /\ reqCtx.t = "reqctx"
    /\ h_x_custom_header \in DOMAIN inRequest.headers
    /\ inRequest.headers[h_x_custom_header] = Str("value")
    /\ HeaderIs(reqCtx, h_x_custom_header, Str("value"))
    /\ HeaderIs(reqCtx, h_Authorization, Str(SCRUBBED))

\* C9: a report call leaves the caller's objects (custom data, request body,
\* the configured default payload) as they were, at every depth.
CallerDataUntouched == [][(pc = "ready" /\ pc' # "ready") => heap' = heap]_vars

\* C9 happens: a request body holding Password has been posted masked by a
\* client with includeRequestBody, and the caller's object still holds the
\* value.
CallerDataUntouched_witness ==
    /\ call.t = "call"
    /\ call.context.t = "ctx"
    /\ call.context.request.t = "reqctx"
    /\ call.context.request.body = Ref(1)
    /\ client.config.includeRequestBody
    /\ posts # << >>
    /\ k_Password \in DOMAIN heap[1] /\ heap[1][k_Password] = Alice
    /\ posts[1].body.data.request.body.f[k_Password] = Str(SCRUBBED)

\* C10: with rethrow enabled, the wrapped handler rejects with the very value
\* the handler threw, Error or not, and the report call has been made by then.
RethrowsOriginal ==
    (wrapped.pc = "done" /\ wrapped.handler.kind = "throws" /\ wrapped.options.rethrow)
        => (wrapped.result = Rejected(wrapped.handler.value) /\ call.t = "call")

\* The wrapped handler has thrown and the wrapper has finished
WrapperCaught == wrapped.pc = "done" /\ wrapped.handler.kind = "throws"

\* C11: when the wrapped handler fails and neither errorResponse nor rethrow
\* is configured, the wrapper makes one report call, which hands one POST to
\* the transport, and returns the response with status 500 and the body
\* {"error":"Internal Server Error"}.
FailureYields500 ==
    (WrapperCaught /\ ~wrapped.options.rethrow /\ ~wrapped.options.errorResponse) =>
        /\ call.t = "call"
        /\ Len(posts) = 1
        /\ wrapped.result = Returned(InternalServerError)

\* C12: when the wrapped handler fails and the execution context offers
\* waitUntil, the report promise is handed to waitUntil once and the wrapper
\* has its response at once, whatever the transport still does; with no
\* waitUntil, the wrapper has its response only once the report call has
\* settled.
WaitUntilOrAwait ==
    (wrapped.pc # "idle" /\ wrapped.handler.kind = "throws") =>
        IF wrapped.hasWaitUntil
        THEN wrapped.waitUntilCalls = 1 /\ wrapped.pc = "done"
        ELSE /\ wrapped.waitUntilCalls = 0
             /\ wrapped.pc = "done" => outcome.kind \in {"returned", "rejected"}

\* C12 happens: the wrapper has returned its response while the POST of the
\* report handed to waitUntil is still in flight.
WaitUntilOrAwait_witness ==
    /\ WrapperCaught
    /\ wrapped.hasWaitUntil
    /\ wrapped.waitUntilCalls = 1
    /\ wrapped.result.kind = "returned"
    /\ pc = "awaitFetch"
    /\ outcome = Pending

\* C13: when the wrapped handler returns a response without throwing, the
\* wrapper returns that same response, and no report call is made and
\* nothing is sent or logged.
SuccessPassesThrough ==
    (wrapped.pc # "idle" /\ wrapped.handler.kind = "returns") =>
        /\ wrapped.pc = "done"
        /\ wrapped.result = Returned(wrapped.handler.response)
        /\ wrapped.waitUntilCalls = 0
        /\ call = NoCall
        /\ posts = << >>
        /\ console = << >>

\* C13 happens: a handler wrapped with rethrow and errorResponse configured
\* and invoked with an execution context has returned its own response.
SuccessPassesThrough_witness ==
    /\ wrapped.pc = "done"
    /\ wrapped.handler.kind = "returns"
    /\ wrapped.options.rethrow /\ wrapped.options.errorResponse
    /\ wrapped.hasWaitUntil
    /\ wrapped.result.value = [t |-> "response", by |-> "handler"]

\* A report call has run to its end
ReportSettled == call.t = "call" /\ pc = "done"

HasLine(ch, tag) == \E i \in DOMAIN console : console[i] = LogLine(ch, tag)

\* C14: a report call returns null, with an error log line, exactly when the
\* transport fails; when the transport delivers an acknowledgement the call
\* returns it, and a non-zero err in it is written to the error log; the
\* call never throws.
ResultFollowsTransport ==
    ReportSettled =>
        /\ outcome.kind = "returned"
        /\ (outcome.value = Null) <=> (replies # << >> /\ replies[1].kind = "fail")
        /\ outcome.value = Null => HasLine("error", "[Rollbar] Failed to send:")
        /\ (replies # << >> /\ replies[1].kind = "ack") =>
              /\ outcome.value = replies[1].result
              /\ (replies[1].result.err # 0)
                    <=> HasLine("error", "[Rollbar] Error response:")

MessageBodyIsText ==
    (call.t = "call" /\ call.method \in MessageMethods /\ posts # << >>) =>
        /\ k_body \in DOMAIN posts[1].body.data.body.message.f
        /\ posts[1].body.data.body.message.f[k_body] = call.arg

\* C17: every report sent through a client derived by withPerson(p), for any
\* per-call context, carries p as given under data.custom.person.
DerivedCarriesPerson ==
    (call.t = "call" /\ call.through = "derived" /\ posts # << >>) =>
        /\ posts[1].body.data.custom.t = "obj"
        /\ k_person \in DOMAIN posts[1].body.data.custom.f
        /\ posts[1].body.data.custom.f[k_person] = derived.config.payload.f[k_person]

\* The caller itself put a person key into the custom data or the default
\* payload of the report call made
CallerWrotePerson ==
    \/ /\ call.context.t = "ctx"
       /\ call.context.custom.t = "ref"
       /\ k_person \in DOMAIN heap[call.context.custom.id]
    \/ /\ client.config.payload.t = "ref"
       /\ k_person \in DOMAIN heap[client.config.payload.id]

\* C18: withPerson returns a new client and leaves the parent as it was
\* constructed (token, environment, default payload, scrub fields) and the
\* caller's objects as they were; the derived client has the parent's scrub
\* fields, token and environment; reports sent through the parent carry no
\* person but one the caller wrote itself.
ParentUnchanged ==
    /\ [][client # NoClient => client' = client]_vars
    /\ [][derived' # derived => heap' = heap]_vars
    /\ [](derived # NoClient =>
            /\ derived # client
            /\ derived.scrubFields = client.scrubFields
            /\ derived.config.accessToken = client.config.accessToken
            /\ derived.config.environment = client.config.environment)
    /\ []((call.t = "call" /\ call.through = "client" /\ posts # << >>
           /\ posts[1].body.data.custom.t = "obj"
           /\ k_person \in DOMAIN posts[1].body.data.custom.f) => CallerWrotePerson)

\* C18 happens: after withPerson, a client with a default payload of its own
\* and scrub fields of its own has sent a report that carries the default
\* payload and no person.
ParentUnchanged_witness ==
    /\ derived # NoClient
    /\ k_person \in DOMAIN derived.config.payload.f
    /\ SuppliedFields # {}
    /\ call.t = "call" /\ call.through = "client"
    /\ posts # << >>
    /\ client.config.payload = Ref(NumObjs)
    /\ k_name \in DOMAIN heap[NumObjs]
    /\ posts[1].body.data.custom = Obj(k_name :> Alice)

\* C19: the request block of a payload sent has a body only if the client
\* was constructed with includeRequestBody, and then the body is the
\* scrubbed form of the one the caller supplied; otherwise the block has no
\* body, whatever the caller supplied.
BodyOnlyWhenEnabled ==
    \A i \in DOMAIN posts :
        (posts[i].body.data.request.t = "req"
         /\ posts[i].body.data.request.body.t # "undef") =>
            /\ client.config.includeRequestBody
            /\ call.context.request.body = Ref(1)
            /\ posts[i].body.data.request.body.t = "obj"
            /\ ScrubbedAsSpecified(posts[i].body.data.request.body.f, 1)

\* C19 happens: a client without includeRequestBody was given a request
\* context with a body that holds data, and the request block sent has no
\* body.
BodyOnlyWhenEnabled_witness ==
    /\ call.t = "call"
    /\ call.context.t = "ctx"
    /\ call.context.request.t = "reqctx"
    /\ call.context.request.body = Ref(1)
    /\ k_name \in DOMAIN heap[1]
    /\ ~client.config.includeRequestBody
    /\ posts # << >>
    /\ posts[1].body.data.request.t = "req"
    /\ posts[1].body.data.request.body = Undefined

\* The string form of the values a handler throws that are not Errors
StringForm(v) == IF v = Null THEN <<"n","u","l","l">> ELSE v.s

\* C20: a value thrown by a wrapped handler that is not an Error is
\* reported with exception class 'Error' and with the string form of the
\* value as exception message.
NonErrorReportedAsError ==
    (wrapped.pc # "idle" /\ wrapped.handler.kind = "throws"
     /\ wrapped.handler.value.t # "error") =>
        /\ call.t = "call"
        /\ call.method = "error"
        /\ call.arg.name = n_Error
        /\ call.arg.message = StringForm(wrapped.handler.value)
        /\ \A i \in DOMAIN posts :
              posts[i].body.data.body.trace.exception =
                  [class |-> n_Error,
                   message |-> StringForm(wrapped.handler.value)]

\* C20 happens: the handler threw null, and the report posted has class
\* 'Error' and message 'null'.
NonErrorReportedAsError_witness ==
    /\ wrapped.pc # "idle"
    /\ wrapped.handler.kind = "throws"
    /\ wrapped.handler.value = Null
    /\ posts # << >>
    /\ posts[1].body.data.body.trace.exception.message = <<"n","u","l","l">>
    /\ posts[1].body.data.level = "error"

(***************************************************************************)
(* Properties of the stack parser.                                         *)
(***************************************************************************)
\* The lines of the stack text of the error under study
StackLines == split(raised.stack.s)

\* The kind name of an error: its name, or 'Error' for an error without one
KindName(name) == IF name = << >> THEN n_Error ELSE name

\* The summary line of an error of the kind name: the name followed by a
\* colon, or the bare name
IsSummaryLine(name, line) ==
    \/ startsWith(trim(line), KindName(name) \o <<":">>)
    \/ trim(line) = KindName(name)

\* The line matches one of the three grammars
MatchesGrammar(line) ==
    \/ V8_FRAME_REGEX(trim(line)).ok
    \/ V8_ANONYMOUS_REGEX(trim(line)).ok
    \/ FIREFOX_REGEX(trim(line)).ok

\* The frame that stands for a stack without frames
Placeholder(name) ==
    StackFrame(f_no_stack_trace, Undefined, Undefined, KindName(name))

\* C21: for an error of any kind name whose stack text begins with its summary
\* line followed by a line that matches a grammar, getErrorLocation returns the
\* frame of that line, the innermost one; what it returns is the last element
\* of parseStackFrames' result, and it returns null only when that element is
\* one of the two placeholders.
LocationIsInnermostFrame ==
    (parsed.t = "parsed" /\ parsed.location.t # "undef") =>
        /\ parsed.location.t = "null" <=>
              parsed.frames[Len(parsed.frames)].filename \in {f_no_stack_trace, f_unparsed}
        /\ parsed.location.t # "null" =>
              parsed.location = parsed.frames[Len(parsed.frames)]
        /\ (/\ HasText(raised.stack)
            /\ Len(StackLines) >= 2
            /\ IsSummaryLine(raised.name, StackLines[1])
            /\ MatchesGrammar(StackLines[2]))
           => parsed.location = parseStackLine(StackLines[2])

\* C22: the result of parseStackFrames is never empty; for an error without
\* stack text, or with a stack text none of whose lines yields a frame, it is
\* the one frame with filename '(no stack trace)' and the error's name, or
\* 'Error' when the name is empty, as method.
FramesNeverEmpty ==
    parsed.t = "parsed" =>
        /\ Len(parsed.frames) >= 1
        /\ (\/ ~HasText(raised.stack)
            \/ \A i \in DOMAIN StackLines : parseStackLine(StackLines[i]) = Null)
           => parsed.frames = <<Placeholder(raised.name)>>

\* A TypeError whose stack text has lines, none of which yields a frame, has
\* been parsed into the placeholder named TypeError
FramesNeverEmpty_witness ==
    /\ parsed.t = "parsed"
    /\ raised.name = n_TypeError
    /\ HasText(raised.stack)
    /\ Len(StackLines) >= 2
    /\ parsed.frames = <<Placeholder(n_TypeError)>>

\* C23: when the first line of the stack text is the summary line of the
\* error's kind, whatever the kind, it yields no frame; it is the only line
\* discarded as a summary, and blank lines yield no frame: the frames are as
\* many as the lines after the first that are not blank.
SummaryLineDiscarded ==
    (/\ parsed.t = "parsed"
     /\ HasText(raised.stack)
     /\ IsSummaryLine(raised.name, StackLines[1]))
    => /\ \A k \in DOMAIN parsed.frames :
             parsed.frames[k] # parseStackLine(StackLines[1])
       /\ LET rest == {i \in 2..Len(StackLines) : trim(StackLines[i]) # << >>}
          IN  IF rest = {} THEN parsed.frames = <<Placeholder(raised.name)>>
              ELSE Len(parsed.frames) = Cardinality(rest)

\* C24: every line that is not blank and is not the summary line at the head
\* of the stack text yields exactly one frame, and a line matching no grammar
\* yields the frame {'(unparsed)', the trimmed line}: the frames are as many as
\* those lines.
NoLineLost ==
    (parsed.t = "parsed" /\ HasText(raised.stack)) =>
        LET kept == {i \in DOMAIN StackLines :
                        /\ trim(StackLines[i]) # << >>
                        /\ ~(i = 1 /\ IsSummaryLine(raised.name, StackLines[1]))}
        IN  kept # {} =>
              /\ Len(parsed.frames) = Cardinality(kept)
              /\ \A i \in kept :
                    ~MatchesGrammar(StackLines[i]) =>
                        \E k \in DOMAIN parsed.frames :
                            parsed.frames[k] =
                                StackFrame(f_unparsed, Undefined, Undefined,
                                      trim(StackLines[i]))

\* The lines of the stack text that yield a frame, in line order
FrameLines == SelectSeq(StackLines, LAMBDA l : parseStackLine(l) # Null)

\* C25: with n lines that yield a frame, element k of the result (from 0) is
\* the frame of line n-1-k: the frame of the first such line is last.
FramesReversed ==
    (parsed.t = "parsed" /\ HasText(raised.stack) /\ FrameLines # << >>) =>
        /\ Len(parsed.frames) = Len(FrameLines)
        /\ \A k \in 0..(Len(FrameLines) - 1) :
              parsed.frames[k + 1] = parseStackLine(FrameLines[Len(FrameLines) - k])

\* The two-line trace "Error: msg / at foo (...) / at async ..." has been
\* parsed: foo's frame is last and the outer frame first
FramesReversed_witness ==
    /\ parsed.t = "parsed"
    /\ HasText(raised.stack)
    /\ StackLines = <<l_Error_msg, l_foo, l_async>>
    /\ Len(parsed.frames) = 2
    /\ parsed.frames[2].method = <<"f","o","o">>
    /\ parsed.frames[2].filename = <<"f","i","l","e",":","/","/","/","a",".","j","s">>
    /\ parsed.frames[2].lineno = Num(1)
    /\ parsed.frames[2].colno = Num(2)
    /\ parsed.frames[1].filename = <<"b",".","j","s">>

(***************************************************************************)
(* Properties of sending.                                                  *)
(***************************************************************************)
\* C26: a report call hands at most one request to fetch, a POST to the
\* collector endpoint, and none after the transport has failed or the
\* collector has answered.
OnePostPerCall ==
    /\ Len(posts) <= (IF call.t = "call" THEN 1 ELSE 0)
    /\ Len(replies) <= Len(posts)
    /\ \A i \in DOMAIN posts :
          /\ posts[i].url = ROLLBAR_API_URL
          /\ posts[i].method = "POST"
          /\ posts[i].contentType = "application/json"

\* C26 happens: the one request of a call has failed, or has been rejected by
\* the collector, and the call has returned
OnePostPerCall_witness ==
    /\ call.t = "call"
    /\ pc = "done"
    /\ Len(posts) = 1
    /\ Len(replies) = 1
    /\ replies[1].kind = "fail" \/ replies[1].result.err # 0

\* The client that differs from cl in verbose only
VerboseTwin(cl) == [cl EXCEPT !.config.verbose = ~@]

\* C27: in every step of a report call, the call made through the client
\* that differs in verbose only hands the same requests to fetch and ends in
\* the same outcome.
VerboseOnlyLogs ==
    [][
        /\ (call' # call /\ call'.t = "call") =>
              \A now \in ClockInputs :
                \A e \in {report(VerboseTwin(ClientOf(call')), call'.method,
                                  call'.arg, call'.context, now, Effects)} :
                    e.posts = posts' /\ e.outcome = outcome'
        /\ (replies' # replies) =>
              \A s \in {sendSettle(VerboseTwin(ClientOf(call)),
                                    replies'[Len(replies')], Effects)} :
                    s.posts = posts' /\ s.outcome = outcome'
    ]_vars

\* The members a value has once scrubbed and serialised
ScrubbedMembers(v) ==
    IF Truthy(v)
    THEN jsonValue(scrubObject(v, ClientOf(call).scrubFields, {}, heap).val, heap, {}).f
    ELSE EmptyMap

\* C29: in every payload posted, data.custom is the scrubbed default payload
\* of the configuration overlaid by the scrubbed custom data of the call: a
\* key of both has the value of the call, a key of one of them is kept.
CustomIsOverlay ==
    \A i \in DOMAIN posts :
        \A dflt \in {ScrubbedMembers(ClientOf(call).config.payload)} :
          \A own \in {ScrubbedMembers(IF Truthy(call.context)
                                       THEN call.context.custom ELSE Undefined)} :
            IF ~Truthy(ClientOf(call).config.payload)
               /\ ~(Truthy(call.context) /\ Truthy(call.context.custom))
            THEN posts[i].body.data.custom = Undefined
            ELSE /\ posts[i].body.data.custom.t = "obj"
                 /\ posts[i].body.data.custom.f =
                       [k \in DOMAIN dflt \cup DOMAIN own |->
                          IF k \in DOMAIN own THEN own[k] ELSE dflt[k]]

\* C29 happens: a payload was posted whose default payload and custom data
\* have a key in common with different values, and it carries the value of
\* the call
CustomIsOverlay_witness ==
    /\ posts # << >>
    /\ Truthy(client.config.payload)
    /\ Truthy(call.context)
    /\ Truthy(call.context.custom)
    /\ \E k \in DOMAIN ScrubbedMembers(client.config.payload)
                 \cap DOMAIN ScrubbedMembers(call.context.custom) :
          /\ ScrubbedMembers(client.config.payload)[k]
               # ScrubbedMembers(call.context.custom)[k]
          /\ posts[1].body.data.custom.f[k] = ScrubbedMembers(call.context.custom)[k]

\* C30: every payload posted has exactly one of body.trace and body.message:
\* the trace for error and critical, the message for debug, info, warning and
\* log.
OneBodyVariant ==
    \A i \in DOMAIN posts :
        LET body == posts[i].body.data.body
        IN  /\ (body.trace.t = "undef") # (body.message.t = "undef")
            /\ call.method \in ErrorMethods => body.trace.t = "trace"
            /\ call.method \in MessageMethods => body.message.t = "obj"

\* C30 happens: critical has posted a trace without a message
OneBodyVariant_witness ==
    /\ posts # << >>
    /\ call.method = "critical"
    /\ posts[1].body.data.body.trace.t = "trace"
    /\ posts[1].body.data.body.message.t = "undef"

====
